---- MODULE Spec2Model ----
(***************************************************************************)
(* Model of avalonia_project_analyzer.py: main(), the                      *)
(* AvaloniaProjectAnalyzer pipeline (six checks, then print_results) and   *)
(* the text scans the checks perform.                                      *)
(*                                                                         *)
(* Text is modelled as a sequence of tokens (strings).  The characters the *)
(* scans are sensitive to -- the newline, the double quote, '>' and '<' -- *)
(* occur only as tokens of their own, so a substring test is a             *)
(* sub-sequence test and a regular expression is matched token by token.   *)
(* Messages are built as the f-strings build them; the emoji of the        *)
(* printed banners are left out.                                           *)
(***************************************************************************)
EXTENDS Integers, Sequences, FiniteSets, TLC

VARIABLES tree, pc, run, analyzer, issues, warnings, info, log, printed, raised, prev

vars == <<tree, pc, run, analyzer, issues, warnings, info, log, printed, raised, prev>>

(***************************************************************************)
(* Tokens                                                                  *)
(***************************************************************************)
NL == "\n"
SP == " "
LT == "<"
GT == ">"
QUOTE == "\""
SLASH == "/"

\* str.strip() removes leading and trailing whitespace
IsSpaceTok(tok) == tok \in {NL, SP}

RECURSIVE Concat(_)
\* the text a token sequence stands for
Concat(toks) == IF toks = <<>> THEN "" ELSE Head(toks) \o Concat(Tail(toks))

\* `needle in text`
Contains(text, needle) ==
    \E i \in 1..(Len(text) - Len(needle) + 1) :
        SubSeq(text, i, i + Len(needle) - 1) = needle

\* `not content.strip()`
IsBlank(content) == \A i \in 1..Len(content) : IsSpaceTok(content[i])

\* `content.strip().startswith('<')`
StartsWithLT(content) ==
    \E i \in 1..Len(content) :
        /\ content[i] = LT
        /\ \A k \in 1..(i - 1) : IsSpaceTok(content[k])

RECURSIVE SplitLines(_)
\* content.split('\n')
SplitLines(content) ==
    IF \A i \in 1..Len(content) : content[i] # NL
    THEN <<content>>
    ELSE LET i == CHOOSE k \in 1..Len(content) :
                      /\ content[k] = NL
                      /\ \A m \in 1..(k - 1) : content[m] # NL
         IN  <<SubSeq(content, 1, i - 1)>>
             \o SplitLines(SubSeq(content, i + 1, Len(content)))

\* a variant that counts the lines from 0
find_line_number_zero_based(content, search_term) ==
    LET lines == SplitLines(content)
        hits  == {i \in 1..Len(lines) : Contains(lines[i], search_term)}
    IN  IF hits = {} THEN 0
        ELSE (CHOOSE i \in hits : \A j \in hits : i <= j) - 1

\* the 1-based number of the first line that contains search_term, or 0
find_line_number(content, search_term) ==
    LET lines == SplitLines(content)
        hits  == {i \in 1..Len(lines) : Contains(lines[i], search_term)}
    IN  IF hits = {} THEN 0
        ELSE CHOOSE i \in hits : \A j \in hits : i <= j

\* re.search(f'<StackPanel[^>]*{prop}=', content): '<StackPanel', then any
\* characters other than '>' (newlines included), then the attribute and '='
SearchStackPanel(content, prop) ==
    \E i \in 1..Len(content) : \E j \in (i + 2)..Len(content) :
        /\ content[i] = LT
        /\ content[i + 1] = "StackPanel"
        /\ content[j] = prop \o "="
        /\ \A k \in (i + 2)..(j - 1) : content[k] # GT

\* the text of the pattern f'<StackPanel[^>]*{prop}=' itself
StackPanelPattern(prop) == <<LT, "StackPanel", "[^", GT, "]*", prop \o "=">>

\* where a match of attr="([^"]+)" that starts at token i ends, or 0
MatchEnd(content, i, attr) ==
    IF /\ i + 3 <= Len(content)
       /\ content[i] = attr
       /\ content[i + 1] = QUOTE
       /\ content[i + 2] # QUOTE
       /\ \E j \in (i + 3)..Len(content) : content[j] = QUOTE
    THEN CHOOSE j \in (i + 3)..Len(content) :
             /\ content[j] = QUOTE
             /\ \A k \in (i + 3)..(j - 1) : content[k] # QUOTE
    ELSE 0

RECURSIVE FindAllFrom(_, _, _)
\* re.findall(attr="([^"]+)", content): the groups of the non-overlapping
\* matches, left to right, each group a token sequence
FindAllFrom(content, i, attr) ==
    IF i > Len(content) THEN <<>>
    ELSE LET j == MatchEnd(content, i, attr)
         IN  IF j = 0 THEN FindAllFrom(content, i + 1, attr)
             ELSE <<SubSeq(content, i + 2, j - 1)>> \o FindAllFrom(content, j + 1, attr)

FindAll(content, attr) == FindAllFrom(content, 1, attr)

(***************************************************************************)
(* Findings.  A check yields the findings it appends, in order, each with  *)
(* the bucket it goes to; `item` records the examined item that caused it. *)
(***************************************************************************)
Issue(item, msg) == [b |-> "issues", item |-> item, msg |-> msg]
Warning(item, msg) == [b |-> "warnings", item |-> item, msg |-> msg]
Info(item, msg) == [b |-> "info", item |-> item, msg |-> msg]

\* a check that returns normally / that an exception leaves
Returns(out) == [out |-> out, exc |-> FALSE]
Raises(out) == [out |-> out, exc |-> TRUE]

RECURSIVE Flatten(_)
Flatten(seqs) == IF seqs = <<>> THEN <<>> ELSE Head(seqs) \o Flatten(Tail(seqs))

RECURSIVE SelectSeqBy(_, _)
\* the messages of the findings of `out` that go to bucket b, in order
SelectSeqBy(out, b) ==
    IF out = <<>> THEN <<>>
    ELSE (IF Head(out).b = b THEN <<Head(out).msg>> ELSE <<>>)
         \o SelectSeqBy(Tail(out), b)

\* the text of the exception a failed read raises
ReadError == "[Errno 13] Permission denied"

(***************************************************************************)
(* The project tree                                                        *)
(***************************************************************************)
Absent == "<absent>"

\* a *.axaml file: its directory below the root ("" for the root), name,
\* whether read_text succeeds, and its text
XamlFile(dir, stem, readable, content) ==
    [dir |-> dir, stem |-> stem, name |-> stem \o ".axaml",
     readable |-> readable, content |-> content]

\* a *.csproj file: state is "unreadable" (open fails), "malformed" (not XML)
\* or "ok"; ns: the root declares a default XML namespace; groups: the
\* ItemGroup elements, each the sequence of its child elements; use: the text
\* of the UseAvalonia element, or Absent
Csproj(name, state, ns, groups, use) ==
    [name |-> name, state |-> state, ns |-> ns, groups |-> groups, use |-> use]

Element(tag, include, version) == [tag |-> tag, include |-> include, version |-> version]

CodeBehind(exists, readable, content) ==
    [exists |-> exists, readable |-> readable, content |-> content]

FilesIn(t, dir) == SelectSeq(t.xaml, LAMBDA f : f.dir = dir)

RelPath(f) == IF f.dir = "" THEN f.name ELSE f.dir \o "/" \o f.name

\* (project_path / p).exists(): joining an absolute path discards the root
PathExists(t, p) ==
    IF Head(p) = SLASH
    THEN Concat(p) \in t.abs
    ELSE \/ \E i \in 1..Len(t.xaml) : RelPath(t.xaml[i]) = Concat(p)
         \/ Concat(p) \in t.dirs
         \/ \E i \in 1..Len(t.csproj) : t.csproj[i].name = Concat(p)
         \/ (t.appCs.exists /\ Concat(p) = "App.axaml.cs")

\* project_path / "App.axaml": the file of that name in the root, if any
AppXaml(t) == SelectSeq(t.xaml, LAMBDA f : f.dir = "" /\ f.name = "App.axaml")


(***************************************************************************)
(* check_project_structure                                                 *)
(***************************************************************************)
\* a variant with the patterns in another order
required_files_reordered == <<"App.axaml", "*.csproj", "App.axaml.cs">>

required_files == <<"*.csproj", "App.axaml", "App.axaml.cs">>

\* list(project_path.glob(pattern)): the names matched, in directory order
Glob(t, pattern) ==
    CASE pattern = "*.csproj" -> [i \in 1..Len(t.csproj) |-> t.csproj[i].name]
      [] pattern = "App.axaml" -> [i \in 1..Len(AppXaml(t)) |-> "App.axaml"]
      [] pattern = "App.axaml.cs" -> IF t.appCs.exists THEN <<"App.axaml.cs">> ELSE <<>>

RequiredFileFinding(t, pattern) ==
    LET matching_files == Glob(t, pattern)
    IN  IF matching_files = <<>>
        THEN Issue(pattern, "Missing required file: " \o pattern)
        ELSE Info(pattern, "Found: " \o matching_files[1])

\* a variant that reports the count whether or not the folder exists
ViewsFindingNoElse(t) ==
    (IF "Views" \notin t.dirs
     THEN <<Warning("Views", "Views folder doesn't exist")>>
     ELSE <<>>)
    \o <<Info("Views", "Found " \o ToString(Len(FilesIn(t, "Views"))) \o " view files")>>

ViewsFinding(t) ==
    IF "Views" \notin t.dirs
    THEN <<Warning("Views", "Views folder doesn't exist")>>
    ELSE <<Info("Views", "Found " \o ToString(Len(FilesIn(t, "Views"))) \o " view files")>>

check_project_structure(t) ==
    Returns(
        [i \in 1..Len(required_files) |-> RequiredFileFinding(t, required_files[i])]
        \o ViewsFinding(t)
        \o (IF "Controls" \in t.dirs
            THEN <<Info("Controls", "Found " \o ToString(Len(FilesIn(t, "Controls")))
                                     \o " control files")>>
            ELSE <<>>))

(***************************************************************************)
(* check_csproj_file                                                       *)
(***************************************************************************)
\* the sample Include values in which "Avalonia" occurs
AvaloniaIncludes == {"Avalonia", "Avalonia.Desktop"}

\* `"Avalonia" in include`
HasAvalonia(include) == include \in AvaloniaIncludes

\* root.findall(".//ItemGroup"): an unqualified tag matches no element of a
\* document that declares a default namespace
FindItemGroups(doc) == IF doc.ns THEN <<>> ELSE doc.groups

\* the PackageReference children of every ItemGroup found, in order
PackageRefs(doc) ==
    SelectSeq(Flatten(FindItemGroups(doc)), LAMBDA e : e.tag = "PackageReference")

\* f"{include} v{version}" for the references whose Include names Avalonia
avalonia_packages(doc) ==
    LET refs == SelectSeq(PackageRefs(doc), LAMBDA e : HasAvalonia(e.include))
    IN  [i \in 1..Len(refs) |->
            refs[i].include \o " v"
            \o (IF refs[i].version = Absent THEN "Unknown" ELSE refs[i].version)]

\* root.find(".//UseAvalonia") and its text
FindUseAvalonia(doc) == IF doc.ns THEN Absent ELSE doc.use

check_csproj_file(t) ==
    IF t.csproj = <<>>
    THEN Returns(<<Issue("csproj", "No .csproj file found")>>)
    ELSE LET doc  == t.csproj[1]
             pkgs == avalonia_packages(doc)
             use  == FindUseAvalonia(doc)
         IN  CASE doc.state = "unreadable" -> Raises(<<>>)
               [] doc.state = "malformed" ->
                    Returns(<<Issue("csproj", "Failed to parse .csproj file: "
                                              \o "syntax error: line 1, column 0")>>)
               [] OTHER ->
                    Returns(
                        (IF pkgs # <<>>
                         THEN <<Info("packages", "Avalonia packages:")>>
                              \o [i \in 1..Len(pkgs) |-> Info("packages", "  - " \o pkgs[i])]
                         ELSE <<Issue("packages",
                                      "No Avalonia packages found in project file")>>)
                        \o (IF use = Absent
                            THEN <<Warning("UseAvalonia",
                                           "UseAvalonia property not found in project file")>>
                            ELSE IF use # "true"
                            THEN <<Issue("UseAvalonia",
                                         "UseAvalonia property is not set to true")>>
                            ELSE <<>>))


(***************************************************************************)
(* check_xaml_files, check_single_xaml_file                                *)
(***************************************************************************)
typos == << <<"ColumnDefinin", "ColumnDefinitions">>,
            <<"RowDefinin", "RowDefinitions">>,
            <<"MultiClass", "Classes">> >>

unsupported_props == <<"ColumnGap", "RowGap", "Padding">>

\* the namespace is derived from the directory of the file below the root
get_expected_class_name(f) ==
    (IF f.dir # "" THEN "JobFinderApp.Desktop." \o f.dir ELSE "JobFinderApp.Desktop")
    \o "." \o f.stem

TypoFinding(f, typo, correct) ==
    IF Contains(f.content, <<typo>>)
    THEN <<Issue(RelPath(f),
                 f.name \o ":" \o ToString(find_line_number(f.content, <<typo>>))
                 \o ": Found '" \o typo \o "' (should be '" \o correct \o "')")>>
    ELSE <<>>

\* the line is looked up with the text of the pattern as the search term
UnsupportedFinding(f, prop) ==
    IF SearchStackPanel(f.content, prop)
    THEN LET line_num == find_line_number(f.content, StackPanelPattern(prop))
         IN  IF prop = "Padding"
             THEN <<Issue(RelPath(f),
                          f.name \o ":" \o ToString(line_num)
                          \o ": StackPanel doesn't support Padding (use Border instead)")>>
             ELSE <<Issue(RelPath(f),
                          f.name \o ":" \o ToString(line_num) \o ": " \o prop
                          \o " not supported in Avalonia 11.0.7 (use Margin instead)")>>
    ELSE <<>>

ClassFinding(f) ==
    LET class_match == FindAll(f.content, "x:Class=")
    IN  IF class_match # <<>>
        THEN LET declared_class == Concat(class_match[1])
                 expected_class == get_expected_class_name(f)
             IN  IF expected_class # "" /\ declared_class # expected_class
                 THEN <<Warning(RelPath(f),
                                f.name \o ": x:Class '" \o declared_class
                                \o "' might not match file location (expected '"
                                \o expected_class \o "')")>>
                 ELSE <<>>
        ELSE <<>>

\* the findings of one file; every exception is caught inside
check_single_xaml_file(f) ==
    IF ~f.readable
    THEN <<Issue(RelPath(f), f.name \o ": Failed to read file - " \o ReadError)>>
    ELSE IF IsBlank(f.content)
    THEN <<Issue(RelPath(f), f.name \o ": File is empty")>>
    ELSE IF ~StartsWithLT(f.content)
    THEN <<Issue(RelPath(f), f.name \o ": No root element")>>
    ELSE Flatten([k \in 1..Len(typos) |-> TypoFinding(f, typos[k][1], typos[k][2])])
         \o Flatten([k \in 1..Len(unsupported_props) |->
                        UnsupportedFinding(f, unsupported_props[k])])
         \o ClassFinding(f)

\* project_path.rglob("*.axaml") is t.xaml
check_xaml_files(t) ==
    Returns(
        <<Info("xaml files", "Found " \o ToString(Len(t.xaml)) \o " XAML files")>>
        \o Flatten([i \in 1..Len(t.xaml) |-> check_single_xaml_file(t.xaml[i])]))

(***************************************************************************)
(* check_resources                                                         *)
(***************************************************************************)
StyleRefFinding(app_content, style_file) ==
    IF ~Contains(app_content, <<"Styles/" \o style_file.name>>)
    THEN <<Warning(RelPath(style_file),
                   "Style file " \o style_file.name \o " not referenced in App.axaml")>>
    ELSE <<>>

\* App.axaml is read outside any try block
check_resources(t) ==
    LET assets == IF "Assets" \in t.dirs
                  THEN <<Info("Assets", "Found " \o ToString(t.assets) \o " asset files")>>
                  ELSE <<Warning("Assets", "No Assets folder found")>>
        style_files == FilesIn(t, "Styles")
        app_xaml == AppXaml(t)
    IN  IF "Styles" \in t.dirs
        THEN LET found == <<Info("Styles", "Found " \o ToString(Len(style_files))
                                           \o " style files")>>
             IN  IF app_xaml = <<>> THEN Returns(assets \o found)
                 ELSE IF ~app_xaml[1].readable THEN Raises(assets \o found)
                 ELSE Returns(assets \o found
                              \o Flatten([i \in 1..Len(style_files) |->
                                     StyleRefFinding(app_xaml[1].content, style_files[i])]))
        ELSE Returns(assets \o <<Info("Styles", "No Styles folder found")>>)

(***************************************************************************)
(* check_app_files                                                         *)
(***************************************************************************)
\* a variant that reports every Source path
MissingStyleFindingUnchecked(t, style_path) ==
    <<Issue("App.axaml", "App.axaml references missing style: " \o Concat(style_path))>>

MissingStyleFinding(t, style_path) ==
    IF ~PathExists(t, style_path)
    THEN <<Issue("App.axaml", "App.axaml references missing style: " \o Concat(style_path))>>
    ELSE <<>>

AppXamlFindings(t) ==
    LET app_xaml == AppXaml(t)
    IN  IF app_xaml = <<>> THEN <<Issue("App.axaml", "App.axaml not found")>>
        ELSE IF ~app_xaml[1].readable
        THEN <<Issue("App.axaml", "Failed to read App.axaml: " \o ReadError)>>
        ELSE LET content == app_xaml[1].content
                 style_includes == FindAll(content, "Source=")
             IN  (IF IsBlank(content)
                  THEN <<Issue("App.axaml", "App.axaml is empty")>>
                  ELSE IF ~Contains(content, <<"Application">>)
                  THEN <<Issue("App.axaml",
                               "App.axaml doesn't contain Application root element")>>
                  ELSE <<Info("App.axaml", "App.axaml looks valid")>>)
                 \o (IF Contains(content, <<"StyleInclude">>)
                     THEN Flatten([i \in 1..Len(style_includes) |->
                                      MissingStyleFinding(t, style_includes[i])])
                     ELSE <<>>)

AppCsFindings(t) ==
    IF ~t.appCs.exists THEN <<Issue("App.axaml.cs", "App.axaml.cs not found")>>
    ELSE IF ~t.appCs.readable
    THEN <<Issue("App.axaml.cs", "Failed to read App.axaml.cs: " \o ReadError)>>
    ELSE (IF ~Contains(t.appCs.content, <<"InitializeComponent">>)
          THEN <<Warning("App.axaml.cs", "App.axaml.cs doesn't call InitializeComponent()")>>
          ELSE <<>>)
         \o <<Info("App.axaml.cs", "App.axaml.cs exists")>>

check_app_files(t) == Returns(AppXamlFindings(t) \o AppCsFindings(t))

(***************************************************************************)
(* check_build_artifacts                                                   *)
(***************************************************************************)
check_build_artifacts(t) ==
    Returns(
        (IF "obj" \in t.dirs
         THEN (IF t.gen > 0
               THEN <<Info("obj", "Found " \o ToString(t.gen) \o " generated code files")>>
               ELSE <<Warning("obj",
                        "No generated code files found (XAML might not be compiling)")>>)
              \o (IF t.cache THEN <<Info("obj", "Avalonia build cache exists")>> ELSE <<>>)
         ELSE <<Warning("obj", "No obj folder found (project hasn't been built)")>>)
        \o (IF "bin" \in t.dirs
            THEN (IF t.exe > 0
                  THEN <<Info("bin", "Found " \o ToString(t.exe) \o " executable files")>>
                  ELSE <<>>)
            ELSE <<Warning("bin", "No bin folder found")>>))

(***************************************************************************)
(* print_results                                                           *)
(***************************************************************************)
\* enumerate(items, 1): f"   {i}. {item}"
Numbered(items) ==
    [i \in 1..Len(items) |-> "   " \o ToString(i) \o ". " \o items[i]]

Group(title, items) ==
    IF items # <<>>
    THEN <<title \o " (" \o ToString(Len(items)) \o "):">> \o Numbered(items)
    ELSE <<>>

print_results(iss, warn, inf) ==
    <<"ANALYSIS RESULTS">>
    \o Group("CRITICAL ISSUES", iss)
    \o Group("WARNINGS", warn)
    \o Group("INFO", inf)
    \o <<"SUMMARY:",
         "   Issues: " \o ToString(Len(iss)) \o " | Warnings: " \o ToString(Len(warn))
         \o " | Info: " \o ToString(Len(inf))>>
    \o (IF iss # <<>>
        THEN <<"RECOMMENDED ACTIONS:",
               "   1. Fix all critical issues first",
               "   2. Address warnings that might affect functionality",
               "   3. Clean and rebuild project",
               "   4. Test application startup">>
        ELSE <<>>)


(***************************************************************************)
(* Sample project trees                                                    *)
(***************************************************************************)
\* the most files of one folder, tokens of one enumerated text, elements of
\* one enumerated App.axaml, ItemGroups and references per ItemGroup
MaxFiles == 1
MaxLen == 4
MaxElems == 2
MaxGroups == 2
MaxRefs == 1

AllDirs == {"Views", "Controls", "Assets", "Styles", "obj", "bin"}

Tree(exists, csproj, xaml, dirs, appCs, art, abs) ==
    [exists |-> exists, csproj |-> csproj, xaml |-> xaml, dirs |-> dirs,
     appCs |-> appCs, assets |-> art.assets, gen |-> art.gen, cache |-> art.cache,
     exe |-> art.exe, abs |-> abs]

\* what lies below Assets, obj and bin: files under Assets, *.g.cs and
\* *avalonia* entries under obj, *.exe under bin
Artifacts(assets, gen, cache, exe) ==
    [assets |-> assets, gen |-> gen, cache |-> cache, exe |-> exe]

NoArtifacts == Artifacts(0, 0, FALSE, 0)

\* all token sequences over alphabet of length at most n
SeqsUpTo(alphabet, n) == UNION {[1..k -> alphabet] : k \in 0..n}

NoCs == CodeBehind(FALSE, FALSE, <<>>)
GoodCs == CodeBehind(TRUE, TRUE, <<"InitializeComponent", "(", ")", ";">>)
PlainCs == CodeBehind(TRUE, TRUE, <<"class", SP, "App">>)
UnreadableCs == CodeBehind(TRUE, FALSE, <<>>)

AvaloniaRef == Element("PackageReference", "Avalonia", "11.0.7")
DesktopRef == Element("PackageReference", "Avalonia.Desktop", Absent)
JsonRef == Element("PackageReference", "Newtonsoft.Json", "13.0.3")

GoodDoc == Csproj("App.csproj", "ok", FALSE, <<<<AvaloniaRef, DesktopRef>>>>, "true")
OtherDoc == Csproj("Other.csproj", "ok", FALSE, <<<<JsonRef>>>>, "false")
UnreadableDoc == Csproj("App.csproj", "unreadable", FALSE, <<>>, Absent)
MalformedDoc == Csproj("App.csproj", "malformed", FALSE, <<>>, Absent)

StyleInclude(path) ==
    <<LT, "StyleInclude", SP, "Source=", QUOTE>> \o path \o <<QUOTE, SLASH, GT, NL>>

AppOpen ==
    <<LT, "Application", SP, "x:Class=", QUOTE, "JobFinderApp.Desktop.App", QUOTE, GT, NL>>

GoodApp == XamlFile("", "App", TRUE, AppOpen \o StyleInclude(<<"Styles/s1.axaml">>))
BlankApp == XamlFile("", "App", TRUE, <<SP, NL>>)
UnreadableApp == XamlFile("", "App", FALSE, <<>>)

\* the i-th file of a folder: a view declares the class its place implies, a
\* style file is a bare Styles element
FolderFile(dir, i) ==
    IF dir = "Views"
    THEN XamlFile(dir, "V" \o ToString(i), TRUE,
                  <<LT, "UserControl", SP, "x:Class=", QUOTE,
                    "JobFinderApp.Desktop.Views.V" \o ToString(i), QUOTE, GT>>)
    ELSE XamlFile(dir, "s" \o ToString(i), TRUE, <<LT, "Styles", GT>>)

FolderFiles(dir, n) == [i \in 1..n |-> FolderFile(dir, i)]

NoTree == Tree(FALSE, <<>>, <<>>, {}, NoCs, NoArtifacts, {})
EmptyTree == Tree(TRUE, <<>>, <<>>, {}, NoCs, NoArtifacts, {})
HealthyTree ==
    Tree(TRUE, <<GoodDoc>>,
         <<GoodApp>> \o FolderFiles("Views", 1) \o FolderFiles("Styles", 1),
         AllDirs, GoodCs, Artifacts(2, 3, TRUE, 1), {})

BaseTrees == {NoTree, EmptyTree, HealthyTree}

\* layouts: which required files exist and in what condition, and how many
\* files Views and Styles hold
LayoutTrees ==
    {Tree(TRUE, c, a \o FolderFiles("Views", v) \o FolderFiles("Styles", s),
          (IF v >= 0 THEN {"Views"} ELSE {}) \cup (IF s >= 0 THEN {"Styles"} ELSE {})
          \cup d, cs, NoArtifacts, {}) :
        c \in {<<>>, <<GoodDoc>>, <<UnreadableDoc>>, <<MalformedDoc>>, <<OtherDoc, GoodDoc>>},
        a \in {<<>>, <<GoodApp>>, <<BlankApp>>, <<UnreadableApp>>},
        cs \in {NoCs, GoodCs, PlainCs, UnreadableCs},
        v \in (-1)..MaxFiles, s \in (-1)..MaxFiles,
        d \in {{}, {"Controls"}}}

\* build states: which of Assets, obj and bin exist and what they hold
BuildTrees ==
    {Tree(TRUE, <<GoodDoc>>, <<GoodApp>>, d, GoodCs, art, {}) :
        d \in SUBSET {"Assets", "obj", "bin"},
        art \in {Artifacts(n, g, k, e) :
                    n \in {0, 2}, g \in 0..MaxFiles, k \in BOOLEAN, e \in 0..MaxFiles}}

\* nothing lies below a folder that does not exist
Consistent(t) ==
    /\ "Assets" \notin t.dirs => t.assets = 0
    /\ "obj" \notin t.dirs => (t.gen = 0 /\ ~t.cache)
    /\ "bin" \notin t.dirs => t.exe = 0
    /\ \A i \in 1..Len(t.xaml) : t.xaml[i].dir \in t.dirs \cup {""}

\* markup texts: every token sequence up to MaxLen over the tokens the
\* typo and StackPanel scans react to, and some longer ones
XamlAlphabet == {NL, LT, GT, "StackPanel", "ColumnGap=", "ColumnDefinin"}

LongTexts ==
    {<<LT, "Grid", SP, "RowDefinin", "=", QUOTE, "*", QUOTE, GT, NL,
       LT, "StackPanel", SP, "Padding=", QUOTE, "4", QUOTE, SP, "MultiClass", GT>>,
     <<LT, "StackPanel", NL, SP, "RowGap=", QUOTE, "4", QUOTE, GT, NL,
       LT, "StackPanel", "[^", GT, "]*", "RowGap=", GT>>,
     <<NL, LT, "Window", SP, "x:Class=", QUOTE, "Other.Main", QUOTE, SP,
       "ColumnDefinin", GT>>,
     <<SP, NL>>}

MarkupTrees ==
    {Tree(TRUE, <<GoodDoc>>, <<XamlFile("Views", "Main", TRUE, text)>>,
          {"Views"}, GoodCs, NoArtifacts, {}) :
        text \in SeqsUpTo(XamlAlphabet, MaxLen) \cup LongTexts}

\* App.axaml texts: a root tag and up to MaxElems elements
AppElements ==
    {StyleInclude(<<"Styles/s1.axaml">>), StyleInclude(<<"Styles/s2.axaml">>),
     StyleInclude(<<SLASH, "Styles/s1.axaml">>),
     <<LT, "ResourceInclude", SP, "Source=", QUOTE, "Themes/dark.axaml", QUOTE, SLASH, GT>>,
     <<LT, "StyleInclude", SP, "Source=", QUOTE, QUOTE, SLASH, GT>>,
     <<LT, "FluentTheme", SLASH, GT>>}

AppTexts ==
    {root \o Flatten(elems) :
        root \in {AppOpen, <<LT, "Styles", GT>>},
        elems \in SeqsUpTo(AppElements, MaxElems)}

AppTrees ==
    {Tree(TRUE, <<GoodDoc>>,
          <<XamlFile("", "App", TRUE, text)>> \o FolderFiles("Styles", n),
          {"Styles"}, GoodCs, NoArtifacts, abs) :
        text \in AppTexts, n \in 0..MaxFiles,
        abs \in {{}, {"/Styles/s1.axaml"}}}

\* descriptors: up to MaxGroups ItemGroups of up to MaxRefs elements each
DocElements == {AvaloniaRef, DesktopRef, JsonRef, Element("Reference", "Avalonia", Absent)}

CsprojTrees ==
    {Tree(TRUE, <<Csproj("App.csproj", "ok", ns, groups, use)>>, <<>>, {}, NoCs,
          NoArtifacts, {}) :
        ns \in BOOLEAN, use \in {Absent, "true", "false"},
        groups \in SeqsUpTo(SeqsUpTo(DocElements, MaxRefs), MaxGroups)}

(***************************************************************************)
(* The audit: main(), AvaloniaProjectAnalyzer.__init__ and analyze()       *)
(***************************************************************************)
\* a variant that never finds the root missing
RootNeverMissing == FALSE

\* `not os.path.exists(project_path)`
RootMissing == ~tree.exists

\* a variant whose lists are shared by every analyzer
SharedLists == [issues |-> issues, warnings |-> warnings, info |-> info]

\* __init__: three fresh, empty lists
NewAnalyzer == [issues |-> <<>>, warnings |-> <<>>, info |-> <<>>]

\* a variant that inserts at the front
ExtendFront(bucket, out, b) == SelectSeqBy(out, b) \o bucket

\* list.append, for the findings of one check that go to one bucket
Extend(bucket, out, b) == bucket \o SelectSeqBy(out, b)

Logged(check, out) ==
    [i \in 1..Len(out) |->
        [check |-> check, b |-> out[i].b, item |-> out[i].item, msg |-> out[i].msg]]

NoReport == [issues |-> <<>>, warnings |-> <<>>, info |-> <<>>, printed |-> <<>>, raised |-> FALSE]

Start(trees) ==
    /\ tree \in {t \in trees : Consistent(t)}
    /\ pc = "main"
    /\ run = "first"
    /\ analyzer = FALSE
    /\ issues = <<>> /\ warnings = <<>> /\ info = <<>>
    /\ log = <<>>
    /\ printed = <<>>
    /\ raised = FALSE
    /\ prev = NoReport

Init == Start(BaseTrees \cup LayoutTrees \cup BuildTrees)
InitXaml == Start(BaseTrees \cup MarkupTrees)
InitApp == Start(BaseTrees \cup AppTrees)
InitCsproj == Start(BaseTrees \cup CsprojTrees)

\* main: the existence test, then the constructor and the banner of analyze()
Main ==
    /\ pc = "main"
    /\ IF RootMissing
       THEN /\ printed' = <<"Error: Path does not exist">>
            /\ pc' = "done"
            /\ UNCHANGED <<analyzer, issues, warnings, info>>
       ELSE /\ analyzer' = TRUE
            /\ issues' = NewAnalyzer.issues
            /\ warnings' = NewAnalyzer.warnings
            /\ info' = NewAnalyzer.info
            /\ printed' = <<"AVALONIA PROJECT DIAGNOSTIC ANALYSIS">>
            /\ pc' = "structure"
    /\ UNCHANGED <<tree, run, log, raised, prev>>

\* one check of analyze(): its banner, its findings appended to the three
\* lists, then the next check, or the end of the run when an exception leaves
Check(name, banner, res, next) ==
    /\ pc = name
    /\ printed' = Append(printed, banner)
    /\ issues' = Extend(issues, res.out, "issues")
    /\ warnings' = Extend(warnings, res.out, "warnings")
    /\ info' = Extend(info, res.out, "info")
    /\ log' = log \o Logged(name, res.out)
    /\ raised' = res.exc
    /\ pc' = IF res.exc THEN "done" ELSE next
    /\ UNCHANGED <<tree, run, analyzer, prev>>

CheckProjectStructure ==
    Check("structure", "Checking project structure...", check_project_structure(tree), "csproj")

CheckCsprojFile ==
    Check("csproj", "Checking project file...", check_csproj_file(tree), "xaml")

CheckXamlFiles ==
    Check("xaml", "Checking XAML files...", check_xaml_files(tree), "resources")

CheckResources ==
    Check("resources", "Checking resources...", check_resources(tree), "app")

CheckAppFiles ==
    Check("app", "Checking application files...", check_app_files(tree), "build")

CheckBuildArtifacts ==
    Check("build", "Checking build artifacts...", check_build_artifacts(tree), "print")

PrintResults ==
    /\ pc = "print"
    /\ printed' = printed \o print_results(issues, warnings, info)
    /\ pc' = "done"
    /\ UNCHANGED <<tree, run, analyzer, issues, warnings, info, log, raised, prev>>

\* the tool is run a second time on the same tree
Rerun ==
    /\ pc = "done"
    /\ run = "first"
    /\ prev' = [issues |-> issues, warnings |-> warnings, info |-> info,
                printed |-> printed, raised |-> raised]
    /\ run' = "second"
    /\ pc' = "main"
    /\ analyzer' = FALSE
    /\ printed' = <<>>
    /\ log' = <<>>
    /\ raised' = FALSE
    /\ UNCHANGED <<tree, issues, warnings, info>>

Next ==
    \/ Main
    \/ CheckProjectStructure
    \/ CheckCsprojFile
    \/ CheckXamlFiles
    \/ CheckResources
    \/ CheckAppFiles
    \/ CheckBuildArtifacts
    \/ PrintResults
    \/ Rerun

Spec == Init /\ [][Next]_vars
SpecXaml == InitXaml /\ [][Next]_vars
SpecApp == InitApp /\ [][Next]_vars
SpecCsproj == InitCsproj /\ [][Next]_vars



(***************************************************************************)
(* Properties                                                              *)
(***************************************************************************)
IsPrefix(a, b) == Len(a) <= Len(b) /\ SubSeq(b, 1, Len(a)) = a

Occurs(seq, x) == \E i \in 1..Len(seq) : seq[i] = x

Count(seq, x) == Cardinality({i \in 1..Len(seq) : seq[i] = x})

\* the 1-based line of token position i: one more than the newlines before it
LineOfPos(content, i) == 1 + Cardinality({k \in 1..(i - 1) : content[k] = NL})

Least(S) == CHOOSE i \in S : \A j \in S : i <= j

\* C1: whenever the root exists the audit runs to its end: no exception
\* leaves a check, and the report is printed.
C1_AuditAlwaysCompletes ==
    (tree.exists /\ pc = "done") =>
        (~raised /\ Occurs(printed, "ANALYSIS RESULTS"))

\* the required patterns in their declared order, and whether the root holds
\* a match of the i-th
DeclaredPatterns == <<"*.csproj", "App.axaml", "App.axaml.cs">>

PatternPresent(i) ==
    CASE i = 1 -> tree.csproj # <<>>
      [] i = 2 -> \E k \in 1..Len(tree.xaml) :
                      tree.xaml[k].dir = "" /\ tree.xaml[k].name = "App.axaml"
      [] i = 3 -> tree.appCs.exists

FirstMatch(i) == IF i = 1 THEN tree.csproj[1].name ELSE DeclaredPatterns[i]

RECURSIVE ExpectedMissing(_)
ExpectedMissing(i) ==
    IF i > Len(DeclaredPatterns) THEN <<>>
    ELSE (IF PatternPresent(i) THEN <<>>
          ELSE <<"Missing required file: " \o DeclaredPatterns[i]>>)
         \o ExpectedMissing(i + 1)

RECURSIVE ExpectedFound(_)
ExpectedFound(i) ==
    IF i > Len(DeclaredPatterns) THEN <<>>
    ELSE (IF PatternPresent(i) THEN <<"Found: " \o FirstMatch(i)>> ELSE <<>>)
         \o ExpectedFound(i + 1)

\* C2: right after check_project_structure the issues are exactly one
\* "Missing required file" per missing pattern, in declared order, and the
\* info list starts with exactly one "Found" per present pattern, in declared
\* order, followed only by the folder counts.
C2_StructureFindings ==
    pc = "csproj" =>
        /\ issues = ExpectedMissing(1)
        /\ IsPrefix(ExpectedFound(1), info)
        /\ Len(info) = Len(ExpectedFound(1))
                       + Cardinality(tree.dirs \cap {"Views", "Controls"})

C2_Witness ==
    /\ pc = "csproj"
    /\ issues = <<"Missing required file: *.csproj", "Missing required file: App.axaml",
                  "Missing required file: App.axaml.cs">>

\* the typo tokens and their corrections
TypoTable == << <<"ColumnDefinin", "ColumnDefinitions">>,
                <<"RowDefinin", "RowDefinitions">>,
                <<"MultiClass", "Classes">> >>

TypoMessage(f, k) ==
    f.name \o ":"
    \o ToString(LineOfPos(f.content,
                          Least({i \in 1..Len(f.content) : f.content[i] = TypoTable[k][1]})))
    \o ": Found '" \o TypoTable[k][1] \o "' (should be '" \o TypoTable[k][2] \o "')"

HasTypo(f, k) == f.readable /\ \E i \in 1..Len(f.content) : f.content[i] = TypoTable[k][1]

\* C3 as stated: after the markup check, every markup file that contains a
\* typo token has an issue with the corrected spelling and the 1-based number
\* of the first line the token is on.
C3_TypoReported ==
    pc = "resources" =>
        \A n \in 1..Len(tree.xaml) : \A k \in 1..Len(TypoTable) :
            HasTypo(tree.xaml[n], k) => Occurs(issues, TypoMessage(tree.xaml[n], k))

\* C3 amended: the same, for the markup files whose text, stripped of
\* surrounding whitespace, starts with '<'.
C3_TypoReportedWithRoot ==
    pc = "resources" =>
        \A n \in 1..Len(tree.xaml) : \A k \in 1..Len(TypoTable) :
            (HasTypo(tree.xaml[n], k) /\ StartsWithLT(tree.xaml[n].content))
                => Occurs(issues, TypoMessage(tree.xaml[n], k))

C3_Witness ==
    /\ pc = "resources"
    /\ \E n \in 1..Len(tree.xaml) :
          /\ HasTypo(tree.xaml[n], 1)
          /\ StartsWithLT(tree.xaml[n].content)
          /\ Occurs(issues, tree.xaml[n].name
                            \o ":2: Found 'ColumnDefinin' (should be 'ColumnDefinitions')")

\* the positions of the attribute tokens that a StackPanel opening tag carries
StackPanelAttrs(content, prop) ==
    {j \in 1..Len(content) :
        /\ content[j] = prop \o "="
        /\ \E i \in 1..(j - 2) :
              /\ content[i] = LT /\ content[i + 1] = "StackPanel"
              /\ \A k \in (i + 2)..(j - 1) : content[k] # GT}

UnsupportedMessage(f, prop, line) ==
    f.name \o ":" \o ToString(line)
    \o (IF prop = "Padding"
        THEN ": StackPanel doesn't support Padding (use Border instead)"
        ELSE ": " \o prop \o " not supported in Avalonia 11.0.7 (use Margin instead)")

\* C9: after the markup check, every markup file with a root element in which
\* a StackPanel tag carries an unsupported attribute has the issue for it with
\* the 1-based number of the first line that attribute is on.
C9_StackPanelLine ==
    pc = "resources" =>
        \A n \in 1..Len(tree.xaml) : \A prop \in {"ColumnGap", "RowGap", "Padding"} :
            LET f == tree.xaml[n]
            IN  (f.readable /\ StartsWithLT(f.content)
                 /\ StackPanelAttrs(f.content, prop) # {})
                    => Occurs(issues,
                              UnsupportedMessage(f, prop,
                                  LineOfPos(f.content, Least(StackPanelAttrs(f.content, prop)))))


\* the Source paths of App.axaml, when it can be read and names StyleInclude
ReadableApp == AppXaml(tree) # <<>> /\ AppXaml(tree)[1].readable

StyleRefs ==
    IF ReadableApp /\ Occurs(AppXaml(tree)[1].content, "StyleInclude")
    THEN LET refs == FindAll(AppXaml(tree)[1].content, "Source=")
         IN  [i \in 1..Len(refs) |-> refs[i]]
    ELSE <<>>

MissingStyleMessage(path) == "App.axaml references missing style: " \o Concat(path)

\* C4 as stated: right after check_app_files, every referenced style path that
\* does not exist has exactly one issue naming it, and one that exists none.
C4_OneIssuePerMissingPath ==
    pc = "build" =>
        \A r \in 1..Len(StyleRefs) :
            Count(issues, MissingStyleMessage(StyleRefs[r]))
                = IF PathExists(tree, StyleRefs[r]) THEN 0 ELSE 1

\* C4 amended: a referenced style path that does not exist has one issue
\* naming it for each reference to it, and one that exists none.
C4_OneIssuePerMissingReference ==
    pc = "build" =>
        \A r \in 1..Len(StyleRefs) :
            Count(issues, MissingStyleMessage(StyleRefs[r]))
                = IF PathExists(tree, StyleRefs[r]) THEN 0
                  ELSE Count(StyleRefs, StyleRefs[r])

C4_Witness ==
    /\ pc = "build"
    /\ \E r \in 1..Len(StyleRefs) :
          /\ ~PathExists(tree, StyleRefs[r])
          /\ Count(StyleRefs, StyleRefs[r]) = 2
          /\ Count(issues, MissingStyleMessage(StyleRefs[r])) = 2

\* C5: when the root path does not exist, main prints the one error message
\* and returns: no analyzer, no check, no finding, no report, no exception.
C5_MissingRoot ==
    ~tree.exists =>
        /\ pc \in {"main", "done"}
        /\ ~analyzer
        /\ issues = <<>> /\ warnings = <<>> /\ info = <<>>
        /\ log = <<>>
        /\ ~raised
        /\ pc = "done" => printed = <<"Error: Path does not exist">>

C5_Witness ==
    ~tree.exists /\ pc = "done" /\ printed = <<"Error: Path does not exist">>

DeclaredAvaloniaRefs(doc) ==
    SelectSeq(Flatten(doc.groups),
              LAMBDA e : e.tag = "PackageReference"
                         /\ e.include \in {"Avalonia", "Avalonia.Desktop"})

PackageLine(e) ==
    "  - " \o e.include \o " v" \o (IF e.version = Absent THEN "Unknown" ELSE e.version)

\* C7: right after check_csproj_file on a well-formed descriptor: with no
\* Avalonia PackageReference there is the "No Avalonia packages" issue and no
\* header; with some, the header is followed by one info per reference in
\* document order and there is no such issue.
C7_PackagesReported ==
    (pc = "xaml" /\ tree.csproj # <<>> /\ tree.csproj[1].state = "ok") =>
        LET refs == DeclaredAvaloniaRefs(tree.csproj[1])
        IN  IF refs = <<>>
            THEN /\ Occurs(issues, "No Avalonia packages found in project file")
                 /\ ~Occurs(info, "Avalonia packages:")
            ELSE /\ ~Occurs(issues, "No Avalonia packages found in project file")
                 /\ \E h \in 1..Len(info) :
                       /\ info[h] = "Avalonia packages:"
                       /\ h + Len(refs) <= Len(info)
                       /\ \A i \in 1..Len(refs) : info[h + i] = PackageLine(refs[i])

\* C8 as stated: no examined item makes one check append to two buckets.
C8_OneBucketPerItem ==
    \A i, j \in 1..Len(log) :
        (log[i].check = log[j].check /\ log[i].item = log[j].item)
            => log[i].b = log[j].b

\* the items for which that holds: the required file patterns and the Views
\* folder, the UseAvalonia flag, the style files, the bin folder
SingleOutcome(e) ==
    \/ e.check = "structure" /\ e.item \in {"*.csproj", "App.axaml", "App.axaml.cs", "Views"}
    \/ e.check = "csproj" /\ e.item = "UseAvalonia"
    \/ e.check = "resources" /\ e.item \notin {"Assets", "Styles"}
    \/ e.check = "build" /\ e.item = "bin"

\* C8 amended: a required file pattern, the Views folder, the UseAvalonia
\* flag, a style file and the bin folder each yield findings in at most one
\* bucket during a check.
C8_OneBucketPerSimpleItem ==
    \A i, j \in 1..Len(log) :
        (SingleOutcome(log[i]) /\ log[i].check = log[j].check /\ log[i].item = log[j].item)
            => log[i].b = log[j].b

C8_Witness ==
    /\ pc = "done" /\ ~raised
    /\ \E i \in 1..Len(log) : log[i].check = "csproj" /\ log[i].item = "UseAvalonia"
    /\ \E i \in 1..Len(log) : log[i].check = "resources" /\ log[i].item = "Styles/s1.axaml"
    /\ \E i \in 1..Len(log) : log[i].check = "build" /\ log[i].item = "bin"
    /\ \E i \in 1..Len(log) : log[i].check = "structure" /\ log[i].item = "Views"

\* the order of the steps of one run (an exception ends the run), and the
\* start of the next run
StepOrder ==
    {<<"main", "structure">>, <<"main", "done">>, <<"structure", "csproj">>,
     <<"csproj", "xaml">>, <<"csproj", "done">>, <<"xaml", "resources">>,
     <<"resources", "app">>, <<"resources", "done">>, <<"app", "build">>,
     <<"build", "print">>, <<"print", "done">>, <<"done", "main">>}

\* C10: the checks run in the fixed order, print_results only after the sixth,
\* and from the first check on every step leaves each bucket a prefix of its
\* new value.
C10_OrderedAppendOnly ==
    [][/\ <<pc, pc'>> \in StepOrder
       /\ pc # "main" =>
             /\ IsPrefix(issues, issues')
             /\ IsPrefix(warnings, warnings')
             /\ IsPrefix(info, info')]_vars

C10_Witness ==
    /\ pc = "done" /\ ~raised /\ analyzer
    /\ Len(issues) >= 2 /\ Len(warnings) >= 2 /\ Len(info) >= 2
    /\ Occurs(printed, "ANALYSIS RESULTS")


====
